---- MODULE Spec2Model ----
(***************************************************************************)
(* Push-to-talk voice interface: the gesture-tracking VoiceButton          *)
(* (src/components/VoiceButton.tsx, first component) mounted by the Home   *)
(* page (src/app/page.tsx).                                                *)
(*                                                                         *)
(* Every action is one run of an event handler, timer callback or promise  *)
(* continuation, executed to completion as the single-threaded event loop  *)
(* does.  React re-renders between events, so a handler reads the props    *)
(* and state of the latest render.                                         *)
(*                                                                         *)
(* Time is counted in periods of the 100 ms interval timer.                *)
(*                                                                         *)
(* Spec is the button and the page.  SpecBoundary follows one artifact     *)
(* from the recorder through the page's request to the POST handler        *)
(* (src/app/api/voice/route.ts) on every platform.                         *)
(* SpecTeardown is Spec with the unmount of the button.  SpecSimple is the  *)
(* second, simpler VoiceButton of the same file with the same page.        *)
(***************************************************************************)
EXTENDS Integers, Sequences, FiniteSets

\* ---------------------------------------------------------------- bounds
MaxSessions == 2      \* getUserMedia requests issued in one run
NumContacts == 2      \* pointer / touch contacts (pointerIds 1..NumContacts)
MaxChunks   == 1      \* timeslice chunks buffered before the final flush
maxDuration == 2      \* the maxDuration prop, in timer periods (the page
                      \* passes 20 s, 200 periods; the guard only compares
                      \* elapsed >= maxDuration)

NULL == 0

Sessions == 1..MaxSessions
Contacts == 1..NumContacts

\* ------------------------------------------------------------ vocabulary
types == <<"audio/webm;codecs=opus", "audio/webm", "audio/mp4", "audio/wav">>

\* MediaRecorder.isTypeSupported on the platforms the run may be on
Platforms ==
  { {"audio/mp4", "audio/wav"},
    {} }

MsgServer   == "Could not understand audio."
MsgProcess  == "Failed to process voice"
MsgNoAudio  == "No audio response received"
MsgPlayback == "Failed to play audio response"
MsgRetry    == "Could not play audio. Tap to retry."
MsgNetwork  == "Failed to fetch"
MsgUnknown  == "Something went wrong"
\* the text the button renders while permissionDenied is set
MsgMicDenied ==
  "Microphone access denied. Please enable it in your browser settings."

VARIABLES
  \* VoiceButton: mounted, and its React state
  mounted, isRecording, permissionDenied,
  \* VoiceButton: refs
  mediaRecorderRef, chunksRef, streamRef, timerRef, elapsed,
  isPressedRef, pointerIdRef,
  \* platform objects the component created
  supported, pendingGUM, recorder, stopQueued, trackLive, timers, contact,
  \* Home page
  status, errorMessage, call, resetTimeouts, audioUrl,
  \* bookkeeping of the run (not read by the program)
  nSessions, stops, completes, age, released, received,
  \* one artifact on its way through the boundary (page.tsx -> route.ts)
  audioBlob, request, srv, audioFile, response

btnVars  == <<isRecording, permissionDenied, mediaRecorderRef, chunksRef,
              streamRef, timerRef, elapsed, isPressedRef, pointerIdRef>>
platVars == <<supported, pendingGUM, recorder, stopQueued, trackLive, timers>>
pageVars == <<status, errorMessage, call, resetTimeouts, audioUrl>>
histVars == <<nSessions, stops, completes, age, released, received>>
mainVars == <<mounted, btnVars, platVars, contact, pageVars, histVars>>
boundaryVars == <<audioBlob, request, srv, audioFile, response>>
vars     == <<mainVars, boundaryVars>>

\* --------------------------------------------------------------- helpers
\* page.tsx: const isDisabled = status === "processing" || status === "playing"
isDisabled == status = "processing" \/ status = "playing"

RECURSIVE find(_, _, _)
find(seq, i, sup) ==
  IF i > Len(seq) THEN ""
  ELSE IF seq[i] \in sup THEN seq[i] ELSE find(seq, i + 1, sup)

\* types.find(isTypeSupported) || "audio/webm"
getMimeType(sup) ==
  LET hit == find(types, 1, sup) IN IF hit = "" THEN "audio/webm" ELSE hit

\* const mimeType = getMimeType(): the type of the recorder and of its blob
mimeType == getMimeType(supported)

\* new MediaRecorder(stream, { mimeType }) throws NotSupportedError for a
\* type the platform cannot record
recorderThrows == getMimeType(supported) \notin supported

Requesting(s) == s \in pendingGUM
Active(s)     == recorder[s] = "recording"

\* a release signal reached the sessions that are under way: each remembers
\* the phase it was in when its first release signal arrived
MarkReleased ==
  [s \in Sessions |->
     IF released[s] # "no" THEN released[s]
     ELSE IF Requesting(s) THEN "pending"
     ELSE IF Active(s) THEN "active"
     ELSE "no"]

\* a session is under way until its request is settled, its recorder has
\* delivered its stop event and its stream is released
UnderWay(s) ==
  Requesting(s) \/ Active(s) \/ s \in stopQueued \/ s \in trackLive

\* the bookkeeping of a session is dropped once it is over
KeepReleased(h) == [s \in Sessions |-> IF UnderWay(s)' THEN h[s] ELSE "no"]
KeepAge(h)      == [s \in Sessions |-> IF Active(s)' THEN h[s] ELSE 0]
KeepReceived(h) ==
  [s \in Sessions |-> IF Active(s)' \/ s \in stopQueued' THEN h[s] ELSE 0]

\* ------------------------------------------------------- stopRecording()
stopRecording ==
  LET cur  == mediaRecorderRef
      live == cur # NULL /\ recorder[cur] = "recording"
  IN [recorder    |-> IF live THEN [recorder EXCEPT ![cur] = "inactive"]
                      ELSE recorder,
      stopQueued  |-> IF live THEN stopQueued \cup {cur} ELSE stopQueued,
      stops       |-> IF live THEN [stops EXCEPT ![cur] = @ + 1] ELSE stops,
      timers      |-> IF timerRef # NULL THEN timers \ {timerRef} ELSE timers,
      timerRef    |-> NULL,
      isRecording |-> FALSE]

ApplyStop(r) ==
  /\ recorder'    = r.recorder
  /\ stopQueued'  = r.stopQueued
  /\ stops'       = r.stops
  /\ timers'      = r.timers
  /\ timerRef'    = r.timerRef
  /\ isRecording' = r.isRecording

\* what stopRecording leaves alone
stopFrame == <<permissionDenied, mediaRecorderRef, chunksRef, streamRef,
               elapsed, supported, pendingGUM, trackLive>>

\* ------------------------------------------------------------------ Init
\* the component and the page as constructed, whatever the platform
Mounted ==
  /\ mounted = TRUE
  /\ isRecording = FALSE
  /\ permissionDenied = FALSE
  /\ mediaRecorderRef = NULL
  /\ chunksRef = <<>>
  /\ streamRef = NULL
  /\ timerRef = NULL
  /\ elapsed = 0
  /\ isPressedRef = FALSE
  /\ pointerIdRef = NULL
  /\ pendingGUM = {}
  /\ recorder = [s \in Sessions |-> "none"]
  /\ stopQueued = {}
  /\ trackLive = {}
  /\ timers = {}
  /\ contact = [c \in Contacts |-> "up"]
  /\ status = "idle"
  /\ errorMessage = ""
  /\ call = [s \in Sessions |-> "none"]
  /\ resetTimeouts = 0
  /\ audioUrl = {}
  /\ nSessions = 0
  /\ stops = [s \in Sessions |-> 0]
  /\ completes = [s \in Sessions |-> 0]
  /\ age = [s \in Sessions |-> 0]
  /\ released = [s \in Sessions |-> "no"]
  /\ received = [s \in Sessions |-> 0]

\* nothing has been handed to the boundary
Unsent ==
  /\ audioBlob = <<>>
  /\ request = <<>>
  /\ srv = "idle"
  /\ audioFile = <<>>
  /\ response = <<>>

Init ==
  /\ supported \in Platforms
  /\ Mounted
  /\ Unsent

\* ------------------------------------------------ gesture: press / release
\* startRecording up to its await: the getUserMedia request is issued
startRecording ==
  IF isDisabled
  THEN UNCHANGED <<pendingGUM, nSessions>>
  ELSE /\ nSessions' = nSessions + 1
       /\ pendingGUM' = pendingGUM \cup {nSessions + 1}

\* handlePointerDown without its isDisabled test: the variant against which
\* C9 is shown to depend on that test
handlePointerDown_Ungated(c) ==
  /\ pointerIdRef' = c
  /\ isPressedRef' = TRUE
  /\ startRecording

handlePointerDown(c) ==
  IF isDisabled
  THEN UNCHANGED <<pointerIdRef, isPressedRef, pendingGUM, nSessions>>
  ELSE /\ pointerIdRef' = c
       /\ isPressedRef' = TRUE
       /\ startRecording

\* a contact goes down on the button; the contact remembers whether the
\* button was disabled at that moment
PointerDown(c) ==
  /\ mounted
  /\ UNCHANGED <<boundaryVars, mounted>>
  /\ contact[c] = "up"
  /\ isDisabled \/ nSessions < MaxSessions
  /\ contact' = [contact EXCEPT ![c] = IF isDisabled THEN "refused"
                                       ELSE "down"]
  /\ handlePointerDown(c)
  /\ UNCHANGED <<isRecording, permissionDenied, mediaRecorderRef, chunksRef,
                 streamRef, timerRef, elapsed, supported, recorder,
                 stopQueued, trackLive, timers, pageVars,
                 stops, completes, age, released, received>>

\* a contact goes down somewhere else on the page: no handler is registered
ContactDownElsewhere(c) ==
  /\ UNCHANGED <<boundaryVars, mounted>>
  /\ contact[c] = "up"
  /\ contact' = [contact EXCEPT ![c] = "down"]
  /\ UNCHANGED <<btnVars, platVars, pageVars, histVars>>

handlePressEnd ==
  IF ~isPressedRef
  THEN UNCHANGED <<btnVars, platVars, histVars>>
  ELSE /\ isPressedRef' = FALSE
       /\ pointerIdRef' = NULL
       /\ IF mediaRecorderRef # NULL /\ recorder[mediaRecorderRef] = "recording"
          THEN ApplyStop(stopRecording)
          ELSE UNCHANGED <<recorder, stopQueued, stops, timers, timerRef,
                           isRecording>>
       /\ UNCHANGED stopFrame
       /\ UNCHANGED <<nSessions, completes, received>>
       /\ released' = KeepReleased(MarkReleased)
       /\ age' = KeepAge(age)

\* document "pointerup" listener
onPointerUp(c) ==
  IF pointerIdRef # NULL /\ c = pointerIdRef
  THEN handlePressEnd
  ELSE UNCHANGED <<btnVars, platVars, histVars>>

\* document "touchend" listener
onTouchEnd ==
  IF isPressedRef
  THEN handlePressEnd
  ELSE UNCHANGED <<btnVars, platVars, histVars>>

\* contact c lifts and the browser delivers pointerup only (a mouse, a pen)
PointerUp(c) ==
  /\ mounted
  /\ UNCHANGED <<boundaryVars, mounted>>
  /\ contact[c] # "up"
  /\ contact' = [contact EXCEPT ![c] = "up"]
  /\ onPointerUp(c)
  /\ UNCHANGED pageVars

\* contact c lifts and the browser delivers touchend: alone when the pointer
\* stream was cancelled, or right after a pointerup.  A pointerup that ends
\* the press leaves the touchend nothing to do, and one that is ignored leaves
\* the state as it was, so both orders come to onTouchEnd alone.
TouchEnd(c) ==
  /\ mounted
  /\ UNCHANGED <<boundaryVars, mounted>>
  /\ contact[c] # "up"
  /\ contact' = [contact EXCEPT ![c] = "up"]
  /\ onTouchEnd
  /\ UNCHANGED pageVars

\* the contact is gone and no event is delivered for it (a permission dialog
\* or an app switch swallows pointerup and touchend)
ContactGone(c) ==
  /\ UNCHANGED <<boundaryVars, mounted>>
  /\ contact[c] # "up"
  /\ contact' = [contact EXCEPT ![c] = "up"]
  /\ UNCHANGED <<btnVars, platVars, pageVars, histVars>>

\* window "blur" listener
onBlur ==
  /\ isPressedRef' = FALSE
  /\ pointerIdRef' = NULL

WindowBlur ==
  /\ mounted
  /\ UNCHANGED <<boundaryVars, mounted>>
  /\ onBlur
  /\ released' = MarkReleased
  /\ UNCHANGED <<isRecording, permissionDenied, mediaRecorderRef, chunksRef,
                 streamRef, timerRef, elapsed, platVars, contact, pageVars,
                 nSessions, stops, completes, age, received>>

\* ------------------------------------------- startRecording after the await
\* getUserMedia resolves for request s
Grant(s) ==
  /\ UNCHANGED <<boundaryVars, mounted>>
  /\ s \in pendingGUM
  /\ pendingGUM' = pendingGUM \ {s}
  /\ IF ~isPressedRef
     THEN \* released during the prompt: the tracks are stopped at once
          UNCHANGED <<btnVars, supported, recorder, stopQueued, trackLive,
                      timers>>
     ELSE /\ streamRef' = s
          /\ trackLive' = trackLive \cup {s}
          /\ chunksRef' = <<>>
          /\ IF recorderThrows
             THEN \* caught; the error is not a NotAllowedError
                  UNCHANGED <<isRecording, permissionDenied, mediaRecorderRef,
                              timerRef, elapsed, recorder, timers>>
             ELSE /\ mediaRecorderRef' = s
                  /\ recorder' = [recorder EXCEPT ![s] = "recording"]
                  /\ elapsed' = 0
                  /\ isRecording' = TRUE
                  /\ permissionDenied' = FALSE
                  /\ timerRef' = s
                  /\ timers' = timers \cup {s}
          /\ UNCHANGED <<isPressedRef, pointerIdRef, supported, stopQueued>>
  /\ UNCHANGED <<contact, pageVars, nSessions, stops, completes, received>>
  /\ released' = KeepReleased(released)
  /\ age' = KeepAge(age)

ErrorNames == {"NotAllowedError", "NotFoundError"}

\* getUserMedia rejects for request s
Deny(s, name) ==
  /\ UNCHANGED <<boundaryVars, mounted>>
  /\ s \in pendingGUM
  /\ pendingGUM' = pendingGUM \ {s}
  /\ permissionDenied' = IF name = "NotAllowedError" THEN TRUE
                         ELSE permissionDenied
  /\ UNCHANGED <<isRecording, mediaRecorderRef, chunksRef, streamRef, timerRef,
                 elapsed, isPressedRef, pointerIdRef, supported, recorder,
                 stopQueued, trackLive, timers, contact, pageVars, nSessions,
                 stops, completes, received>>
  /\ released' = KeepReleased(released)
  /\ age' = KeepAge(age)

Bump(n) == IF n > maxDuration THEN n ELSE n + 1

\* one period of the interval timers passes and their callbacks run
Tick ==
  /\ UNCHANGED <<boundaryVars, mounted>>
  /\ timers # {}
  /\ elapsed' = Bump(elapsed)
  /\ IF elapsed' >= maxDuration
     THEN ApplyStop(stopRecording)
     ELSE UNCHANGED <<recorder, stopQueued, stops, timers, timerRef,
                      isRecording>>
  /\ UNCHANGED <<permissionDenied, mediaRecorderRef, chunksRef, streamRef,
                 isPressedRef, pointerIdRef, supported, pendingGUM, trackLive,
                 contact, pageVars, nSessions, completes, received>>
  /\ age' = KeepAge([s \in Sessions |-> Bump(age[s])])
  /\ released' = KeepReleased(released)

\* recorder.ondataavailable; e.data of recorder s is named by the recorder and
\* its place among the non-empty chunks that recorder delivered
ondataavailable(s, size) ==
  IF size > 0 THEN Append(chunksRef, <<s, received[s] + 1>>) ELSE chunksRef

\* a timeslice of recorder s is delivered
DataAvailable(s, size) ==
  /\ UNCHANGED <<boundaryVars, mounted>>
  /\ Active(s)
  /\ Len(chunksRef) < MaxChunks
  /\ received[s] < MaxChunks
  /\ chunksRef' = ondataavailable(s, size)
  /\ received' = [received EXCEPT ![s] = IF size > 0 THEN @ + 1 ELSE @]
  /\ UNCHANGED <<isRecording, permissionDenied, mediaRecorderRef, streamRef,
                 timerRef, elapsed, isPressedRef, pointerIdRef, platVars,
                 contact, pageVars, nSessions, stops, completes, age,
                 released>>

\* the task queued by recorder.stop(): the last dataavailable, then onstop
\* (which calls handleRecordingComplete up to its first await)
StopEvent(s, size) ==
  /\ UNCHANGED <<boundaryVars, mounted>>
  /\ s \in stopQueued
  /\ stopQueued' = stopQueued \ {s}
  /\ LET blob == ondataavailable(s, size) IN
       /\ chunksRef' = <<>>
       /\ IF streamRef # NULL
          THEN /\ trackLive' = trackLive \ {streamRef}
               /\ streamRef' = NULL
          ELSE UNCHANGED <<trackLive, streamRef>>
       /\ IF Len(blob) > 0
          THEN /\ completes' = [completes EXCEPT ![s] = @ + 1]
               /\ status' = "processing"
               /\ errorMessage' = ""
               /\ call' = [call EXCEPT ![s] = "encoding"]
          ELSE UNCHANGED <<completes, status, errorMessage, call>>
  /\ UNCHANGED <<isRecording, permissionDenied, mediaRecorderRef, timerRef,
                 elapsed, isPressedRef, pointerIdRef, supported, pendingGUM,
                 recorder, timers, contact, resetTimeouts, audioUrl,
                 nSessions, stops, age>>
  /\ released' = KeepReleased(released)
  /\ received' = KeepReceived(received)

\* ------------------------------------------------ handleRecordingComplete
\* the catch block: show the message and schedule the reset
catchError(msg) ==
  /\ status' = "error"
  /\ errorMessage' = msg
  /\ resetTimeouts' = resetTimeouts + 1

pageFrame == <<btnVars, platVars, contact, histVars>>

\* blobToBase64 resolves and the POST is sent
Encoded(a) ==
  /\ UNCHANGED <<boundaryVars, mounted>>
  /\ call[a] = "encoding"
  /\ call' = [call EXCEPT ![a] = "fetching"]
  /\ UNCHANGED <<pageFrame, status, errorMessage, resetTimeouts, audioUrl>>

\* RequestFails with a retry in its catch: the variant against which C22 is
\* shown to depend on the catch sending nothing
RequestFails_Retrying(a, msg) ==
  /\ UNCHANGED <<boundaryVars, mounted>>
  /\ call[a] = "fetching" /\ msg = MsgNetwork
  /\ catchError(msg)
  /\ call' = [call EXCEPT ![a] = "fetching"]
  /\ UNCHANGED <<pageFrame, audioUrl>>

\* blobToBase64 rejects (with the reader's event, not an Error) before
\* anything is sent, or fetch rejects
RequestFails(a, msg) ==
  /\ UNCHANGED <<boundaryVars, mounted>>
  /\ \/ call[a] = "encoding" /\ msg = MsgUnknown
     \/ call[a] = "fetching" /\ msg = MsgNetwork
  /\ catchError(msg)
  /\ call' = [call EXCEPT ![a] = "failed"]
  /\ UNCHANGED <<pageFrame, audioUrl>>

MsgJson == "Unexpected token"
NotOkBodies == {"error", "empty", "unparsable"}

\* errorData.error || "Failed to process voice"
notOkMessage(body) ==
  IF body = "error" THEN MsgServer
  ELSE IF body = "empty" THEN MsgProcess
  ELSE MsgJson

\* the response arrives with a non-success status
ResponseNotOk(a, body) ==
  /\ UNCHANGED <<boundaryVars, mounted>>
  /\ call[a] = "fetching"
  /\ catchError(notOkMessage(body))
  /\ call' = [call EXCEPT ![a] = "failed"]
  /\ UNCHANGED <<pageFrame, audioUrl>>

OkAudio == {"valid", "undecodable", "missing"}

\* the response arrives with a success status; playAudio runs up to play()
ResponseOk(a, audio) ==
  /\ UNCHANGED <<boundaryVars, mounted>>
  /\ call[a] = "fetching"
  /\ IF audio = "missing"
     THEN /\ catchError(MsgNoAudio)
          /\ call' = [call EXCEPT ![a] = "failed"]
          /\ UNCHANGED audioUrl
     ELSE /\ IF audio = "undecodable"
             THEN \* atob throws inside playAudio, whose own catch handles it
                  /\ status' = "error"
                  /\ errorMessage' = MsgRetry
                  /\ call' = [call EXCEPT ![a] = "done"]
                  /\ UNCHANGED <<audioUrl, resetTimeouts>>
             ELSE /\ status' = "playing"
                  /\ audioUrl' = audioUrl \cup {a}
                  /\ call' = [call EXCEPT ![a] = "starting"]
                  /\ UNCHANGED <<errorMessage, resetTimeouts>>
  /\ UNCHANGED pageFrame

\* audio.play() resolves
PlayResolves(a) ==
  /\ UNCHANGED <<boundaryVars, mounted>>
  /\ call[a] = "starting"
  /\ call' = [call EXCEPT ![a] = "playing"]
  /\ UNCHANGED <<pageFrame, status, errorMessage, resetTimeouts, audioUrl>>

\* audio.play() rejects: the catch of playAudio
PlayRejects(a) ==
  /\ UNCHANGED <<boundaryVars, mounted>>
  /\ call[a] \in {"starting", "failing"}
  /\ status' = "error"
  /\ errorMessage' = MsgRetry
  /\ call' = [call EXCEPT ![a] = IF call[a] = "starting" THEN "rejected"
                                 ELSE "done"]
  /\ UNCHANGED <<pageFrame, resetTimeouts, audioUrl>>

\* audio.onended
AudioEnded(a) ==
  /\ UNCHANGED <<boundaryVars, mounted>>
  /\ call[a] = "playing"
  /\ audioUrl' = audioUrl \ {a}
  /\ status' = "idle"
  /\ call' = [call EXCEPT ![a] = "done"]
  /\ UNCHANGED <<pageFrame, errorMessage, resetTimeouts>>

\* audio.onerror
AudioError(a) ==
  /\ UNCHANGED <<boundaryVars, mounted>>
  /\ call[a] \in {"starting", "playing", "rejected"}
  /\ audioUrl' = audioUrl \ {a}
  /\ status' = "error"
  /\ errorMessage' = MsgPlayback
  /\ call' = [call EXCEPT ![a] = IF call[a] = "starting" THEN "failing"
                                 ELSE "done"]
  /\ UNCHANGED <<pageFrame, resetTimeouts>>

\* the 3000 ms timeout of the catch block fires
ResetTimeout ==
  /\ UNCHANGED <<boundaryVars, mounted>>
  /\ resetTimeouts > 0
  /\ resetTimeouts' = resetTimeouts - 1
  /\ status' = "idle"
  /\ errorMessage' = ""
  /\ UNCHANGED <<pageFrame, call, audioUrl>>

Next ==
  \/ \E s \in Sessions : Grant(s)
  \/ \E s \in Sessions, n \in ErrorNames : Deny(s, n)
  \/ Tick
  \/ \E s \in Sessions, z \in {0, 1} : DataAvailable(s, z)
  \/ \E s \in Sessions, z \in {0, 1} : StopEvent(s, z)
  \/ \E a \in Sessions : Encoded(a)
  \/ \E a \in Sessions, m \in {MsgNetwork, MsgUnknown} : RequestFails(a, m)
  \/ \E a \in Sessions, b \in NotOkBodies : ResponseNotOk(a, b)
  \/ \E a \in Sessions, d \in OkAudio : ResponseOk(a, d)
  \/ \E a \in Sessions : PlayResolves(a)
  \/ \E a \in Sessions : PlayRejects(a)
  \/ \E a \in Sessions : AudioEnded(a)
  \/ \E a \in Sessions : AudioError(a)
  \/ ResetTimeout
  \/ \E c \in Contacts : PointerDown(c)
  \/ \E c \in Contacts : ContactDownElsewhere(c)
  \/ \E c \in Contacts : PointerUp(c)
  \/ \E c \in Contacts : TouchEnd(c)
  \/ \E c \in Contacts : ContactGone(c)
  \/ WindowBlur

Spec == Init /\ [][Next]_vars

\* --------------------------------------------------------------- teardown
\* the cleanup functions of the effects run: the document and window
\* listeners are removed, the interval held in timerRef is cleared and the
\* tracks of the stream held in streamRef are stopped.  Promise
\* continuations, recorder events and intervals that were not cleared still
\* run afterwards.
Unmount ==
  /\ mounted
  /\ mounted' = FALSE
  /\ timers' = IF timerRef # NULL THEN timers \ {timerRef} ELSE timers
  /\ trackLive' = IF streamRef # NULL THEN trackLive \ {streamRef}
                  ELSE trackLive
  /\ UNCHANGED <<btnVars, supported, pendingGUM, recorder, stopQueued,
                 contact, pageVars, histVars, boundaryVars>>

NextTeardown ==
  \/ Next
  \/ Unmount

\* the button and the page, with the teardown of the button
SpecTeardown == Init /\ [][NextTeardown]_vars

\* ======================================================== simpler variant
\* The second VoiceButton of VoiceButton.tsx: handlers on the button element
\* itself, no isPressedRef and no pointerIdRef.  Its stopRecording, its
\* recorder callbacks, its interval callback and its catch block read as those
\* of the first component, so stopRecording, Deny, Tick, DataAvailable and
\* StopEvent stand for both; the page is the same page.

\* onPointerDown: if (!isDisabled && !isRecording) startRecording()
Simple_handlePointerDown ==
  IF ~isDisabled /\ ~isRecording
  THEN startRecording
  ELSE UNCHANGED <<pendingGUM, nSessions>>

\* onPointerUp: if (isRecording) stopRecording()
Simple_handlePointerUp ==
  IF isRecording
  THEN ApplyStop(stopRecording)
  ELSE UNCHANGED <<recorder, stopQueued, stops, timers, timerRef, isRecording>>

\* onPointerLeave: if (isRecording) stopRecording()
Simple_handlePointerLeave ==
  IF isRecording
  THEN ApplyStop(stopRecording)
  ELSE UNCHANGED <<recorder, stopQueued, stops, timers, timerRef, isRecording>>

\* a contact goes down on the button
Simple_PointerDown(c) ==
  /\ UNCHANGED <<boundaryVars, mounted>>
  /\ contact[c] = "up"
  /\ isDisabled \/ isRecording \/ nSessions < MaxSessions
  /\ contact' = [contact EXCEPT ![c] = "down"]
  /\ Simple_handlePointerDown
  /\ UNCHANGED <<btnVars, supported, recorder, stopQueued, trackLive, timers,
                 pageVars, stops, completes, age, released, received>>

\* contact c lifts over the button
Simple_PointerUp(c) ==
  /\ UNCHANGED <<boundaryVars, mounted>>
  /\ contact[c] # "up"
  /\ contact' = [contact EXCEPT ![c] = "up"]
  /\ Simple_handlePointerUp
  /\ UNCHANGED stopFrame
  /\ UNCHANGED <<isPressedRef, pointerIdRef, pageVars, nSessions, completes,
                 received>>
  /\ released' = KeepReleased(MarkReleased)
  /\ age' = KeepAge(age)

\* contact c, held down, slides off the button: the press is over for the
\* button
Simple_PointerLeave(c) ==
  /\ UNCHANGED <<boundaryVars, mounted>>
  /\ contact[c] # "up"
  /\ contact' = [contact EXCEPT ![c] = "up"]
  /\ Simple_handlePointerLeave
  /\ UNCHANGED stopFrame
  /\ UNCHANGED <<isPressedRef, pointerIdRef, pageVars, nSessions, completes,
                 received>>
  /\ released' = KeepReleased(MarkReleased)
  /\ age' = KeepAge(age)

\* getUserMedia resolves for request s: the rest of startRecording runs
\* whatever happened during the await
Simple_Grant(s) ==
  /\ UNCHANGED <<boundaryVars, mounted>>
  /\ s \in pendingGUM
  /\ pendingGUM' = pendingGUM \ {s}
  /\ streamRef' = s
  /\ trackLive' = trackLive \cup {s}
  /\ chunksRef' = <<>>
  /\ IF recorderThrows
     THEN \* caught; the error is not a NotAllowedError
          UNCHANGED <<isRecording, permissionDenied, mediaRecorderRef,
                      timerRef, elapsed, recorder, timers>>
     ELSE /\ mediaRecorderRef' = s
          /\ recorder' = [recorder EXCEPT ![s] = "recording"]
          /\ elapsed' = 0
          /\ isRecording' = TRUE
          /\ permissionDenied' = FALSE
          /\ timerRef' = s
          /\ timers' = timers \cup {s}
  /\ UNCHANGED <<isPressedRef, pointerIdRef, supported, stopQueued, contact,
                 pageVars, nSessions, stops, completes, received>>
  /\ released' = KeepReleased(released)
  /\ age' = KeepAge(age)

NextSimple ==
  \/ \E c \in Contacts : Simple_PointerDown(c)
  \/ \E c \in Contacts : Simple_PointerUp(c)
  \/ \E c \in Contacts : Simple_PointerLeave(c)
  \/ \E c \in Contacts : ContactGone(c)
  \/ \E s \in Sessions : Simple_Grant(s)
  \/ \E s \in Sessions, n \in ErrorNames : Deny(s, n)
  \/ Tick
  \/ \E s \in Sessions, z \in {0, 1} : DataAvailable(s, z)
  \/ \E s \in Sessions, z \in {0, 1} : StopEvent(s, z)
  \/ \E a \in Sessions : Encoded(a)
  \/ \E a \in Sessions, m \in {MsgNetwork, MsgUnknown} : RequestFails(a, m)
  \/ \E a \in Sessions, b \in NotOkBodies : ResponseNotOk(a, b)
  \/ \E a \in Sessions, d \in OkAudio : ResponseOk(a, d)
  \/ \E a \in Sessions : PlayResolves(a)
  \/ \E a \in Sessions : PlayRejects(a)
  \/ \E a \in Sessions : AudioEnded(a)
  \/ \E a \in Sessions : AudioError(a)
  \/ ResetTimeout

\* the simpler button and the page
SpecSimple == Init /\ [][NextSimple]_vars

\* =============================================================== boundary
\* One artifact on its way from recorder.onstop through handleRecordingComplete
\* (page.tsx) to the POST handler (route.ts), on every platform.  The button
\* and the page stay as mounted; their behaviour is specification Spec.

\* String.prototype.includes
includes(str, sub) ==
  \E i \in 1..(Len(str) - Len(sub) + 1) : SubSeq(str, i, i + Len(sub) - 1) = sub

\* getAudioFormat without its tests: the variant against which C16 is shown
\* to depend on them
getAudioFormat_Untested(t) == "webm"

\* page.tsx: getAudioFormat
getAudioFormat(t) ==
  IF includes(t, "webm") THEN "webm"
  ELSE IF includes(t, "mp4") THEN "mp4"
  ELSE IF includes(t, "wav") THEN "wav"
  ELSE "webm"

\* route.ts: const extension = ..., const mimeType = ...
extension(format) ==
  IF format = "mp4" THEN "mp4" ELSE IF format = "wav" THEN "wav" ELSE "webm"

routeMimeType(format) ==
  IF format = "mp4" THEN "audio/mp4"
  ELSE IF format = "wav" THEN "audio/wav"
  ELSE "audio/webm"

\* the length of the base64 text of n bytes (a string is falsy when empty)
base64(n) == 4 * ((n + 2) \div 3)

\* String.prototype.trim, for blanks
RECURSIVE trim(_)
trim(t) ==
  IF Len(t) > 0 /\ SubSeq(t, 1, 1) = " " THEN trim(SubSeq(t, 2, Len(t)))
  ELSE IF Len(t) > 0 /\ SubSeq(t, Len(t), Len(t)) = " "
       THEN trim(SubSeq(t, 1, Len(t) - 1))
  ELSE t

MsgNoInput    == "No audio provided"
MsgUnderstand == "Could not understand audio. Please try again."
MsgNoReply    == "No response generated"
MsgRouteFail  == "Failed to process voice request"
MsgApi        == "Incorrect API key provided"

\* NextResponse.json({ error }, { status })
Failure(st, msg) ==
  [status |-> st, error |-> msg, audio |-> 0, audioFormat |-> ""]

\* NextResponse.json({ audio, audioFormat: "mp3", transcript, response })
Success(audio) ==
  [status |-> 200, error |-> "", audio |-> audio, audioFormat |-> "mp3"]

AllPlatforms == SUBSET {types[i] : i \in 1..Len(types)}
BlobSizes    == {1, 4}
PostFormats  == {"webm", "mp4", "wav", "ogg", ""}
Transcripts  == {"", " ", "hi"}
Replies      == {"", "Once upon a time"}
TtsSizes     == {0, 3}
\* what an await of the handler may throw: an OpenAI.APIError with its status
\* (0: no status), or any other error
Thrown ==
  {[api |-> TRUE, status |-> 0], [api |-> TRUE, status |-> 401],
   [api |-> TRUE, status |-> 500], [api |-> FALSE, status |-> 0]}

InitBoundary ==
  /\ supported \in AllPlatforms
  /\ Mounted
  /\ Unsent

\* recorder.onstop: a non-empty blob of the recorder's type goes to the page
onRecordingComplete(size) ==
  /\ ~recorderThrows
  /\ audioBlob = <<>> /\ request = <<>>
  /\ audioBlob' = <<[type |-> mimeType, size |-> size]>>
  /\ UNCHANGED <<mainVars, request, srv, audioFile, response>>

\* handleRecordingComplete up to fetch: the request body
PostVoice ==
  /\ Len(audioBlob) = 1 /\ request = <<>>
  /\ request' = <<[audio  |-> base64(audioBlob[1].size),
                   format |-> getAudioFormat(audioBlob[1].type)]>>
  /\ UNCHANGED <<mainVars, audioBlob, srv, audioFile, response>>

\* some other client posts a body of its own to the route
OtherClientPost(audio, format) ==
  /\ audioBlob = <<>> /\ request = <<>>
  /\ request' = <<[audio |-> audio, format |-> format]>>
  /\ UNCHANGED <<mainVars, audioBlob, srv, audioFile, response>>

\* POST up to the transcription request
PostReceived ==
  /\ Len(request) = 1 /\ srv = "idle"
  /\ IF request[1].audio = 0
     THEN /\ response' = <<Failure(400, MsgNoInput)>>
          /\ srv' = "done"
          /\ UNCHANGED audioFile
     ELSE /\ audioFile' = <<[name |-> "audio." \o extension(request[1].format),
                             type |-> routeMimeType(request[1].format)]>>
          /\ srv' = "transcribing"
          /\ UNCHANGED response
  /\ UNCHANGED <<mainVars, audioBlob, request>>

\* the transcription arrives
Transcribed(text) ==
  /\ srv = "transcribing"
  /\ IF text = "" \/ trim(text) = ""
     THEN /\ response' = <<Failure(400, MsgUnderstand)>>
          /\ srv' = "done"
     ELSE /\ srv' = "chatting"
          /\ UNCHANGED response
  /\ UNCHANGED <<mainVars, audioBlob, request, audioFile>>

\* the chat completion arrives
ChatReplied(responseText) ==
  /\ srv = "chatting"
  /\ IF responseText = ""
     THEN /\ response' = <<Failure(500, MsgNoReply)>>
          /\ srv' = "done"
     ELSE /\ srv' = "speaking"
          /\ UNCHANGED response
  /\ UNCHANGED <<mainVars, audioBlob, request, audioFile>>

\* the synthesized speech arrives
Spoken(n) ==
  /\ srv = "speaking"
  /\ response' = <<Success(base64(n))>>
  /\ srv' = "done"
  /\ UNCHANGED <<mainVars, audioBlob, request, audioFile>>

\* an await throws: the catch of POST
Throws(e) ==
  /\ srv \in {"transcribing", "chatting", "speaking"}
  /\ response' =
       IF e.api
       THEN <<Failure(IF e.status # 0 THEN e.status ELSE 500, MsgApi)>>
       ELSE <<Failure(500, MsgRouteFail)>>
  /\ srv' = "done"
  /\ UNCHANGED <<mainVars, audioBlob, request, audioFile>>

NextBoundary ==
  \/ \E z \in BlobSizes : onRecordingComplete(z)
  \/ PostVoice
  \/ \E a \in {0, 4}, f \in PostFormats : OtherClientPost(a, f)
  \/ PostReceived
  \/ \E t \in Transcripts : Transcribed(t)
  \/ \E r \in Replies : ChatReplied(r)
  \/ \E n \in TtsSizes : Spoken(n)
  \/ \E e \in Thrown : Throws(e)

SpecBoundary == InitBoundary /\ [][NextBoundary]_vars

\* ================================================================ claims
Busy == {s \in Sessions : Requesting(s) \/ Active(s)}

\* the recorder, stream, timer and request state of the capture sessions
sessionVars == <<isRecording, mediaRecorderRef, chunksRef, streamRef, timerRef,
                 pendingGUM, recorder, stopQueued, trackLive, timers>>

\* C1: at most one capture session is Requesting or Active, and no step
\* issues a device request while a session is Requesting or Active
C1_SingleSession ==
  [][ /\ Cardinality(Busy') <= 1
      /\ Busy # {} => pendingGUM' \subseteq pendingGUM ]_vars

\* C2: a session whose press was released while its getUserMedia was pending
\* never gets a recorder, a live stream or a call of onRecordingComplete
C2_ReleasedWhilePending ==
  \A s \in Sessions :
    released[s] = "pending" =>
      /\ recorder[s] = "none"
      /\ s \notin trackLive
      /\ completes[s] = 0

\* C3: for an Active session that received no release signal, the tick at
\* which its elapsed time reaches maxDuration stops its recorder and cancels
\* its timer
C3_DurationGuard ==
  [][ \A s \in Sessions :
        (Tick /\ Active(s) /\ released[s] = "no" /\ age[s] + 1 >= maxDuration)
          => (~Active(s)' /\ s \notin timers') ]_vars

\* C4: while the press is armed with token t, a pointerup or touchend of
\* another contact leaves the gesture state and the capture sessions alone
C4_ForeignRelease ==
  [][ \A c \in Contacts :
        ((PointerUp(c) \/ TouchEnd(c)) /\ isPressedRef /\ pointerIdRef # c)
          => UNCHANGED <<isPressedRef, pointerIdRef, sessionVars>> ]_vars

\* C5: a window blur disarms the gesture whatever token is armed, and stops
\* an Active session the way a user release does: recorder stopped, duration
\* timer cancelled
C5_BlurReleases ==
  [][ WindowBlur =>
        /\ ~isPressedRef' /\ pointerIdRef' = NULL
        /\ \A s \in Sessions : Active(s) => (~Active(s)' /\ s \notin timers')
    ]_vars

\* what stopRecording would write, had it changed nothing
unstopped ==
  [recorder |-> recorder, stopQueued |-> stopQueued, stops |-> stops,
   timers |-> timers, timerRef |-> timerRef, isRecording |-> isRecording]

\* C6: the release signals of a press add up to exactly one stop of its
\* session and at most one call of onRecordingComplete, and stopRecording
\* changes nothing when the current session is not recording
C6_OneStopPerPress ==
  /\ \A s \in Sessions :
       /\ stops[s] <= 1
       /\ completes[s] <= 1
       /\ released[s] = "active" => stops[s] = 1
  /\ (mediaRecorderRef = NULL \/ recorder[mediaRecorderRef] # "recording")
       => stopRecording = unstopped

\* C7: during a single press the status is Recording from the start of
\* capture until the artifact is ready
C7_RecordingStatus ==
  (nSessions = 1 /\ (Active(1) \/ 1 \in stopQueued)) => status = "recording"

\* C8: when no request is pending, no recorder is recording and no stop event
\* is outstanding, no granted stream has a live track
C8_IdleHasNoLiveStream ==
  (pendingGUM = {} /\ stopQueued = {} /\ \A s \in Sessions : ~Active(s))
    => trackLive = {}

\* C9: a pointer-down on the button while status is Processing or Playing arms
\* no token, issues no device request and starts no capture session
C9_DisabledRejectsPress ==
  [][ \A c \in Contacts :
        (PointerDown(c) /\ status \in {"processing", "playing"})
          => UNCHANGED <<isPressedRef, pointerIdRef, nSessions, sessionVars>>
    ]_vars

\* C9 witness: a contact went down on the button while it was disabled, and
\* the button is still disabled, unarmed and without a device request
C9_Witness ==
  /\ status \in {"processing", "playing"}
  /\ \E c \in Contacts : contact[c] = "refused"
  /\ ~isPressedRef /\ pointerIdRef = NULL /\ pendingGUM = {}

\* C10: a non-success response {error: m} takes status from Processing to
\* Error with message m and schedules the reset; the artifact never reaches
\* playback; the reset sets status to Idle and clears the message
C10_ErrorThenReset ==
  [][ /\ \A a \in Sessions :
           ResponseNotOk(a, "error") =>
             /\ status = "processing"
             /\ status' = "error" /\ errorMessage' = MsgServer
             /\ resetTimeouts' = resetTimeouts + 1
             /\ call'[a] = "failed"
      /\ \A a \in Sessions : call[a] = "failed" => call'[a] = "failed"
      /\ ResetTimeout => (status' = "idle" /\ errorMessage' = "") ]_vars

\* C11: when getUserMedia rejects with NotAllowedError the status becomes
\* Error with the microphone-access-denied message, and the denied session
\* has no recorder
C11_DeniedShowsError ==
  [][ \A s \in Sessions :
        Deny(s, "NotAllowedError") =>
          /\ status' = "error" /\ errorMessage' = MsgMicDenied
          /\ recorder'[s] = "none" ]_vars

\* C12: a playback failure shows a playback message that clears by itself:
\* whenever status is Error with a playback message, a reset to Idle is
\* scheduled
C12_PlaybackErrorClears ==
  (status = "error" /\ errorMessage \in {MsgPlayback, MsgRetry})
    => resetTimeouts > 0

\* C13: an object URL is un-revoked only while its playback is starting or
\* playing: natural end, error event and rejection of play() all revoke it
C13_UrlRevoked ==
  \A a \in Sessions : a \in audioUrl => call[a] \in {"starting", "playing"}

\* C14: when the blob a session finalizes into is empty, its stop event calls
\* no onRecordingComplete, sends no request and leaves the status alone, yet
\* clears the chunk buffer and releases the stream of that session
C14_EmptyBlobDropped ==
  [][ \A s \in Sessions, z \in {0, 1} :
        (StopEvent(s, z) /\ Len(ondataavailable(s, z)) = 0) =>
          /\ completes' = completes /\ call' = call /\ status' = status
          /\ chunksRef' = <<>>
          /\ s \notin trackLive' ]_vars

\* t is the first entry of the preference list that sup supports, or
\* audio/webm when sup supports none
FirstSupported(sup, t) ==
  \/ \E i \in 1..Len(types) :
       /\ types[i] = t /\ t \in sup
       /\ \A j \in 1..(i - 1) : types[j] \notin sup
  \/ /\ \A i \in 1..Len(types) : types[i] \notin sup
     /\ t = "audio/webm"

\* the first n non-empty chunks of recorder s, in arrival order
OwnChunks(s, n) == [k \in 1..n |-> <<s, k>>]

\* C15: the selected type is the first supported entry of the list (audio/webm
\* when none is), and a session that received N >= 1 non-empty chunks hands
\* over one artifact made of exactly those chunks in arrival order
C15_ArtifactOfOwnChunks ==
  [][ /\ FirstSupported(supported, mimeType)
      /\ \A s \in Sessions, z \in {0, 1} :
           (StopEvent(s, z) /\ received[s] + z >= 1) =>
             /\ ondataavailable(s, z) = OwnChunks(s, received[s] + z)
             /\ completes'[s] = completes[s] + 1 ]_vars

\* C15, the selection alone, on every platform (specification SpecBoundary)
C15_SelectsFirstSupported == FirstSupported(supported, mimeType)

\* the place of the first ch in str, 0 when there is none
IndexOf(str, ch) ==
  IF \E i \in 1..Len(str) : SubSeq(str, i, i) = ch
  THEN CHOOSE i \in 1..Len(str) :
         /\ SubSeq(str, i, i) = ch
         /\ \A j \in 1..(i - 1) : SubSeq(str, j, j) # ch
  ELSE 0

\* a media type without its parameters, and the container it names
Essence(t) ==
  IF IndexOf(t, ";") = 0 THEN t ELSE SubSeq(t, 1, IndexOf(t, ";") - 1)
Container(t) == SubSeq(Essence(t), IndexOf(t, "/") + 1, Len(Essence(t)))

\* C16: the format tag the page sends for an artifact is one of webm, mp4,
\* wav and names the container of the artifact's type, and the file the
\* route builds from it has that container as extension and as media type
C16_FormatNamesContainer ==
  Len(audioBlob) = 1 =>
    /\ Len(request) = 1 =>
         /\ request[1].format \in {"webm", "mp4", "wav"}
         /\ request[1].format = Container(audioBlob[1].type)
    /\ Len(audioFile) = 1 =>
         /\ audioFile[1].name = "audio." \o Container(audioBlob[1].type)
         /\ audioFile[1].type = Essence(audioBlob[1].type)

\* C16 witness: an artifact recorded as audio/webm;codecs=opus has reached
\* the route and its file is built
C16_Witness ==
  /\ Len(audioBlob) = 1
  /\ audioBlob[1].type = "audio/webm;codecs=opus"
  /\ Len(request) = 1 /\ request[1].format = "webm"
  /\ Len(audioFile) = 1

\* C17: a non-success response, or a success without audio, sets status to
\* Error and its artifact never reaches playback; the message is the
\* service's error string when there is one and a fixed generic message
\* otherwise
C17_FailureMessage ==
  [][ \A a \in Sessions :
        /\ \A body \in NotOkBodies :
             ResponseNotOk(a, body) =>
               /\ status' = "error" /\ call'[a] = "failed"
               /\ errorMessage' = IF body = "error" THEN MsgServer
                                  ELSE MsgProcess
        /\ ResponseOk(a, "missing") =>
             /\ status' = "error" /\ call'[a] = "failed"
             /\ errorMessage' = MsgNoAudio
        /\ call[a] = "failed" => call'[a] = "failed" ]_vars

\* the boundary call of artifact a is in flight, or its reply is playing
InFlight(a) == call[a] \in {"encoding", "fetching", "starting", "playing"}

\* C18: status is never Idle, and the button never enabled, while a boundary
\* call is in flight or reply audio is playing; in particular the reset
\* timeout of an earlier failure does not set status to Idle then
C18_BusyIsNotIdle ==
  [][ /\ (ResetTimeout /\ \E a \in Sessions : InFlight(a))
           => status' # "idle"
      /\ (nSessions = 1 /\ \E a \in Sessions : InFlight(a)')
           => (status' # "idle" /\ isDisabled') ]_vars

\* C19: at most one interval timer of the Duration Guard is live, and none
\* is live while no recorder is recording
C19_OneTimer ==
  /\ Cardinality(timers) <= 1
  /\ timers # {} => \E s \in Sessions : Active(s)

\* C20: when the stream is granted to a held press but the recorder cannot be
\* created, the granted stream is stopped and the session is over with no
\* live stream, no timer and isRecording false
C20_EncoderFailureReleases ==
  [][ \A s \in Sessions :
        (Grant(s) /\ isPressedRef /\ recorderThrows) =>
          /\ s \notin trackLive'
          /\ s \notin timers' /\ ~Active(s)' /\ ~isRecording' ]_vars

\* C21: when getUserMedia rejects with a name other than NotAllowedError the
\* user is shown a capture error that is not the permission-denied one:
\* status Error with a message of its own
C21_CaptureErrorShown ==
  [][ \A s \in Sessions :
        (Deny(s, "NotFoundError") /\ ~permissionDenied) =>
          /\ status' = "error"
          /\ errorMessage' \notin {"", MsgMicDenied} ]_vars

\* what holds of the requests of every artifact: onRecordingComplete is
\* called at most once per session, handleRecordingComplete starts once per
\* call and sends its POST only from there, and the catch block ends the
\* call for good, sending nothing again
NoSecondRequest(a) ==
  /\ completes'[a] <= 1
  /\ (call'[a] = "encoding" /\ call[a] # "encoding") =>
       (call[a] = "none" /\ completes'[a] = completes[a] + 1)
  /\ (call'[a] = "fetching" /\ call[a] # "fetching") => call[a] = "encoding"
  /\ call[a] = "failed" => call'[a] = "failed"

\* C22 as claimed: in addition every call of handleRecordingComplete sends
\* its POST
C22_ExactlyOneRequest ==
  [][ \A a \in Sessions :
        /\ NoSecondRequest(a)
        /\ (call[a] = "encoding" /\ call'[a] # "encoding")
             => call'[a] = "fetching" ]_vars

\* C22 amended: every call of handleRecordingComplete sends its POST unless
\* blobToBase64 rejects, and then it sends none and shows the Error; a step
\* of the catch block leaves the call it belongs to failed
C22_AtMostOneRequest ==
  [][ /\ \A a \in Sessions :
           /\ NoSecondRequest(a)
           /\ (call[a] = "encoding" /\ call'[a] # "encoding") =>
                \/ call'[a] = "fetching"
                \/ /\ call'[a] = "failed"
                   /\ status' = "error" /\ errorMessage' = MsgUnknown
      /\ resetTimeouts' > resetTimeouts =>
           \E a \in Sessions : /\ call[a] \in {"encoding", "fetching"}
                                /\ call'[a] = "failed" ]_vars

\* C22 witness: the request of one artifact has failed and the request of
\* the artifact of a later press is in flight
C22_Witness ==
  \E a, b \in Sessions :
    /\ a < b
    /\ call[a] = "failed" /\ completes[a] = 1
    /\ call[b] = "fetching" /\ completes[b] = 1

\* C23: teardown cancels the timer and releases the stream of an Active
\* session, and a grant that arrives after teardown starts no recorder and
\* no timer and leaves no live stream
C23_TeardownDestroysSession ==
  [][ \A s \in Sessions :
        /\ (Unmount /\ Active(s)) =>
             (s \notin timers' /\ s \notin trackLive')
        /\ (Grant(s) /\ ~mounted) =>
             /\ recorder'[s] # "recording"
             /\ s \notin timers' /\ s \notin trackLive' ]_vars

\* C24: in the simpler variant a release while device access is pending
\* prevents capture: on a platform that can record, when the grant arrives
\* for a session whose press was released during the wait, the session does
\* not become Active and its stream is not left live.
C24_SimpleReleasePreventsCapture ==
  [][ \A s \in Sessions :
        (Simple_Grant(s) /\ released[s] = "pending" /\ ~recorderThrows) =>
          /\ ~Active(s)'
          /\ s \notin trackLive' ]_vars

\* a response of the route as the boundary contract has it
IsSuccess(r) == r.status \in 200..299
IsFailure(r) == ~IsSuccess(r) /\ r.error # "" /\ r.audio = 0

\* C25: every exit of the POST handler is a success response with a non-empty
\* audio field and audioFormat mp3, or a non-success status with an error
\* message: 400 for a request without audio, 400 for an empty transcript, 500
\* for an empty chat reply, a non-success status for anything thrown.
C25_EveryExitWellFormed ==
  [][ response' # response =>
        LET r == response'[1] IN
          /\ \/ IsSuccess(r) /\ r.audio > 0 /\ r.audioFormat = "mp3"
             \/ IsFailure(r)
          /\ (PostReceived /\ request[1].audio = 0) => r.status = 400
          /\ (\E t \in Transcripts : Transcribed(t) /\ trim(t) = "") =>
               r.status = 400
          /\ (\E t \in Replies : ChatReplied(t)) => r.status = 500
          /\ (\E e \in Thrown : Throws(e)) => IsFailure(r) ]_vars

\* C26: the isRecording flag is true exactly when some recorder is recording:
\* no recorder captures while the flag is false, and the flag is not true
\* while no recorder captures.
C26_FlagMatchesRecorder ==
  isRecording <=> (\E s \in Sessions : Active(s))
====
